---- MODULE Spec2Model ----
(* ProjectDash.py: a Dash page over a once-loaded airline-route table.      *)
(* The module-level script reads the CSV into df and splits the geocode     *)
(* columns; the callback update_graph recomputes the map figure from df     *)
(* and the two dropdown values.                                             *)
EXTENDS Integers, Sequences, FiniteSets, TLC

VARIABLES pc, csv, df, loaded, calls, year_selected, source_city_selected,
          route_counts, df_year, df_aggregated, city_colors, fig

vars == <<pc, csv, df, loaded, calls, year_selected, source_city_selected,
          route_counts, df_year, df_aggregated, city_colors, fig>>

\* ---------------------------------------------------------------- bounds
\* Largest number of records in an enumerated CSV file.
MaxRows == 3

\* Number of records (one per city) in the largest many-city CSV file.
MaxCities == 11

\* The count of handled dropdown events stops growing here.
MaxCalls == 2

\* ------------------------------------------------------- python ordering
\* Every string of the data in Python's str order (code points, so the
\* upper-case airport codes sort before the mixed-case city names).
StrOrder == <<"ABIA", "AUS", "Austin", "Boston", "Chicago", "DFW",
              "Dallas", "Denver", "Fresno", "Houston", "Irvine", "Jackson",
              "Miami", "Omaha", "Tampa", "XXX">>

Rank(s) == CHOOSE i \in 1..Len(StrOrder) : StrOrder[i] = s

\* a < b on tuples of equal length, as Python and pandas order key tuples.
LexLess(a, b) ==
    \E i \in 1..Len(a) : a[i] < b[i] /\ \A j \in 1..(i - 1) : a[j] = b[j]

RECURSIVE SortTuples(_)
SortTuples(S) ==
    IF S = {} THEN <<>>
    ELSE LET m == CHOOSE x \in S : \A y \in S \ {x} : LexLess(x, y)
         IN  <<m>> \o SortTuples(S \ {m})

\* Series.unique(): the distinct values in order of first appearance.
RECURSIVE unique(_)
unique(s) ==
    IF s = <<>> THEN <<>>
    ELSE LET front == unique(SubSeq(s, 1, Len(s) - 1))
             last  == s[Len(s)]
         IN  IF \E i \in 1..Len(front) : front[i] = last
             THEN front ELSE Append(front, last)

Range(s) == {s[i] : i \in 1..Len(s)}

RECURSIVE SumSeq(_)
SumSeq(s) == IF s = <<>> THEN 0 ELSE s[1] + SumSeq(Tail(s))

MaxOf(s) == CHOOSE m \in Range(s) : \A x \in Range(s) : x <= m

Column(d, name) == [i \in 1..Len(d) |-> d[i][name]]

\* ------------------------------------------------------------ CSV input
CsvRow(y, c1, c2, a, p, g1, g2) ==
    [Year |-> y, city1 |-> c1, city2 |-> c2, airport_1 |-> a,
     passengers |-> p, Geocoded_City1 |-> g1, Geocoded_City2 |-> g2]

\* The records an enumerated file is made of. Every record carries both
\* geocodes in the "<lat>, <lon>" form that lines 13-22 split; a geocode is
\* held as its two tokens. Records with an empty geocode cell are not
\* among the inputs.
CsvRows == {
    CsvRow(2020, "Austin", "Dallas",  "AUS",  100, <<30, -97>>, <<32, -96>>),
    CsvRow(2021, "Austin", "Houston", "ABIA",  50, <<30, -97>>, <<29, -95>>),
    CsvRow(2021, "Austin", "Dallas",  "ABIA",  70, <<31, -98>>, <<32, -96>>),
    CsvRow(2020, "Dallas", "Austin",  "DFW",   30, <<32, -96>>, <<30, -97>>) }

RECURSIVE SeqsUpTo(_, _)
SeqsUpTo(S, n) ==
    IF n = 0 THEN {<<>>}
    ELSE LET shorter == SeqsUpTo(S, n - 1)
         IN  shorter \cup {Append(s, r) : s \in shorter, r \in S}

\* Files of one record per city, enough cities to run past the palette.
ManyCities == <<"Austin", "Boston", "Chicago", "Dallas", "Denver", "Fresno",
                "Houston", "Irvine", "Jackson", "Miami", "Omaha", "Tampa">>

ManyCityFile(n, rev) ==
    [i \in 1..n |->
        LET k == IF rev THEN n + 1 - i ELSE i
        IN  CsvRow(2020, ManyCities[k], "Dallas", "XXX", k,
                   <<20 + k, -90>>, <<32, -96>>)]

CsvFiles ==
    SeqsUpTo(CsvRows, MaxRows)
    \cup {ManyCityFile(MaxCities, rev) : rev \in BOOLEAN}

\* --------------------------------------------------------------- loader
\* Lines 13-22: split both geocode columns on ", " and make them numeric.
LoadRow(r) ==
    [Year |-> r.Year, city1 |-> r.city1, city2 |-> r.city2,
     airport_1 |-> r.airport_1, passengers |-> r.passengers,
     Geocoded_City1 |-> r.Geocoded_City1,
     Geocoded_City2 |-> r.Geocoded_City2,
     start_lat |-> r.Geocoded_City1[1], start_lon |-> r.Geocoded_City1[2],
     end_lat |-> r.Geocoded_City2[1], end_lon |-> r.Geocoded_City2[2]]

read_csv(file) == [i \in 1..Len(file) |-> LoadRow(file[i])]

\* --------------------------------------------------------- update_graph
\* A dropdown value: None, or the list of chosen option values.
None == [is_none |-> TRUE, values |-> {}]
Selected(S) == [is_none |-> FALSE, values |-> S]

\* px.colors.qualitative.Plotly
color_scale == <<"#636EFA", "#EF553B", "#00CC96", "#AB63FA", "#FFA15A",
                 "#19D3F3", "#FF6692", "#B6E880", "#FF97FF", "#FECB52">>

\* Line 61: tuple(sorted([row['city1'], row['city2']])).
route(row) ==
    IF Rank(row.city2) < Rank(row.city1)
    THEN <<row.city2, row.city1>> ELSE <<row.city1, row.city2>>

\* set_route with the sorted pair written back over the two city columns
\* in the wrong order, so that every call exchanges them.
set_route_swapped(d) ==
    [i \in 1..Len(d) |->
        [Year |-> d[i].Year, city1 |-> d[i].city2, city2 |-> d[i].city1,
         airport_1 |-> d[i].airport_1, passengers |-> d[i].passengers,
         Geocoded_City1 |-> d[i].Geocoded_City1,
         Geocoded_City2 |-> d[i].Geocoded_City2,
         start_lat |-> d[i].start_lat, start_lon |-> d[i].start_lon,
         end_lat |-> d[i].end_lat, end_lon |-> d[i].end_lon,
         route |-> route(d[i])]]

\* Line 61: df['route'] = ... writes the column into the module-level df.
set_route(d) ==
    [i \in 1..Len(d) |->
        [Year |-> d[i].Year, city1 |-> d[i].city1, city2 |-> d[i].city2,
         airport_1 |-> d[i].airport_1, passengers |-> d[i].passengers,
         Geocoded_City1 |-> d[i].Geocoded_City1,
         Geocoded_City2 |-> d[i].Geocoded_City2,
         start_lat |-> d[i].start_lat, start_lon |-> d[i].start_lon,
         end_lat |-> d[i].end_lat, end_lon |-> d[i].end_lon,
         route |-> route(d[i])]]

\* DataFrame.groupby(keys): the groups in ascending key order, each group
\* holding its rows in table order. key[i] is the key of row i as a tuple
\* of numbers (strings by their rank).
groupby(d, key) ==
    LET ks == SortTuples(Range(key))
    IN  [g \in 1..Len(ks) |->
            LET members == SelectSeq([i \in 1..Len(d) |-> i],
                                     LAMBDA i : key[i] = ks[g])
            IN  [m \in 1..Len(members) |-> d[members[m]]]]

RouteKey(r) ==
    <<Rank(r.route[1]), Rank(r.route[2]), r.start_lat, r.start_lon,
      Rank(r.airport_1)>>

\* Line 64: group sizes of the whole df by route, origin and airport.
count_routes(d) ==
    LET gs == groupby(d, [i \in 1..Len(d) |-> RouteKey(d[i])])
    IN  [g \in 1..Len(gs) |->
            [route |-> gs[g][1].route, start_lat |-> gs[g][1].start_lat,
             start_lon |-> gs[g][1].start_lon,
             airport_1 |-> gs[g][1].airport_1,
             flight_count |-> Len(gs[g])]]

\* resolve without the len(...) == 0 test: only None means every value.
resolve_none_only(selection, column) ==
    IF selection.is_none THEN Range(unique(column)) ELSE selection.values

\* Lines 67-71: an absent or empty selection becomes every value of df.
resolve(selection, column) ==
    IF selection.is_none \/ Cardinality(selection.values) = 0
    THEN Range(unique(column)) ELSE selection.values

\* filter_rows with | in place of &.
filter_rows_either(d, ys, cs) ==
    LET years  == resolve(ys, Column(d, "Year"))
        cities == resolve(cs, Column(d, "city1"))
    IN  SelectSeq(d, LAMBDA r : r.Year \in years \/ r.city1 \in cities)

\* Line 74: rows whose Year and city1 are both selected.
filter_rows(d, ys, cs) ==
    LET years  == resolve(ys, Column(d, "Year"))
        cities == resolve(cs, Column(d, "city1"))
    IN  SelectSeq(d, LAMBDA r : r.Year \in years /\ r.city1 \in cities)

CityKey(r) == <<Rank(r.city1), r.start_lat, r.start_lon>>

\* Lines 77-82: groupby(['city1','start_lat','start_lon']).agg(...).
aggregate(dy) ==
    LET gs == groupby(dy, [i \in 1..Len(dy) |-> CityKey(dy[i])])
    IN  [g \in 1..Len(gs) |->
            [city1 |-> gs[g][1].city1, start_lat |-> gs[g][1].start_lat,
             start_lon |-> gs[g][1].start_lon,
             passengers |-> SumSeq(Column(gs[g], "passengers")),
             airport_1 |-> gs[g][1].airport_1,
             end_lat |-> gs[g][1].end_lat,
             end_lon |-> gs[g][1].end_lon]]

\* Stable insertion of a count row before the first smaller count.
RECURSIVE SortByCount(_)
SortByCount(t) ==
    IF t = <<>> THEN <<>>
    ELSE LET rest == SortByCount(SubSeq(t, 1, Len(t) - 1))
             x    == t[Len(t)]
             at   == Cardinality({i \in 1..Len(rest) :
                                    rest[i].flight_count >= x.flight_count})
         IN  SubSeq(rest, 1, at) \o <<x>> \o SubSeq(rest, at + 1, Len(rest))

\* Lines 85-86: value_counts() of city1, most frequent first.
value_counts(dy) ==
    LET cs == unique(Column(dy, "city1"))
    IN  SortByCount([k \in 1..Len(cs) |->
            [city1 |-> cs[k],
             flight_count |->
                Len(SelectSeq(dy, LAMBDA r : r.city1 = cs[k]))]])

NaN == "nan"

RECURSIVE Flatten(_)
Flatten(ss) == IF ss = <<>> THEN <<>> ELSE ss[1] \o Flatten(Tail(ss))

\* merge without on='city1': every summary row meets every count row.
merge_cross(left, right) ==
    Flatten([i \in 1..Len(left) |->
        [k \in 1..Len(right) |->
            [city1 |-> left[i].city1, start_lat |-> left[i].start_lat,
             start_lon |-> left[i].start_lon,
             passengers |-> left[i].passengers,
             airport_1 |-> left[i].airport_1,
             end_lat |-> left[i].end_lat, end_lon |-> left[i].end_lon,
             flight_count |-> right[k].flight_count]]])

\* Line 89: left merge on city1; one output row per matching count row,
\* a NaN count where there is none.
merge(left, right) ==
    Flatten([i \in 1..Len(left) |->
        LET m == SelectSeq(right, LAMBDA c : c.city1 = left[i].city1)
            Joined(n) ==
                [city1 |-> left[i].city1, start_lat |-> left[i].start_lat,
                 start_lon |-> left[i].start_lon,
                 passengers |-> left[i].passengers,
                 airport_1 |-> left[i].airport_1,
                 end_lat |-> left[i].end_lat, end_lon |-> left[i].end_lon,
                 flight_count |-> n]
        IN  IF m = <<>> THEN <<Joined(NaN)>>
            ELSE [k \in 1..Len(m) |-> Joined(m[k].flight_count)]])

\* Lines 92-97: the hover string, held as the pieces it is joined from.
hover_text(a) ==
    <<"City: ", a.city1, "<br>", "Total Flights: ", a.flight_count, "<br>",
      "Passengers: ", a.passengers, "<br>", "Airport: ", a.airport_1>>

\* Lines 77-97: the aggregated city summary.
summarise(dy) ==
    LET merged == merge(aggregate(dy), value_counts(dy))
    IN  [k \in 1..Len(merged) |->
            [city1 |-> merged[k].city1, start_lat |-> merged[k].start_lat,
             start_lon |-> merged[k].start_lon,
             passengers |-> merged[k].passengers,
             airport_1 |-> merged[k].airport_1,
             end_lat |-> merged[k].end_lat, end_lon |-> merged[k].end_lon,
             flight_count |-> merged[k].flight_count,
             hover_text |-> hover_text(merged[k])]]

\* assign_colors enumerating the summary rows instead of the distinct
\* cities: a city keeps the index of its last row.
assign_colors_by_row(agg) ==
    [city \in Range(Column(agg, "city1")) |->
        LET i == (CHOOSE k \in 1..Len(agg) :
                      /\ agg[k].city1 = city
                      /\ \A j \in (k + 1)..Len(agg) : agg[j].city1 # city) - 1
        IN  color_scale[(i % Len(color_scale)) + 1]]

\* Lines 100-104: {city: color_scale[i % len(color_scale)]} over the
\* distinct cities of the summary (0-based i, 1-based tuple here).
assign_colors(agg) ==
    LET unique_cities == unique(Column(agg, "city1"))
    IN  [city \in Range(unique_cities) |->
            LET i == (CHOOSE k \in 1..Len(unique_cities) :
                          unique_cities[k] = city) - 1
            IN  color_scale[(i % Len(color_scale)) + 1]]

\* Line 121 and line 137: city_colors[city] raises KeyError on a miss.
KeyError == "KeyError"
lookup(colors, city) ==
    IF city \in DOMAIN colors THEN colors[city] ELSE KeyError

\* marker_trace colouring each point by its row position, not its city.
marker_trace_by_position(agg, rc, colors) ==
    [mode |-> "markers", locationmode |-> "USA-states",
     lon |-> Column(agg, "start_lon"), lat |-> Column(agg, "start_lat"),
     hoverinfo |-> "text", text |-> Column(agg, "hover_text"),
     marker |-> [size |-> Column(rc, "flight_count"), sizemode |-> "area",
                 sizeref |-> <<2 * MaxOf(Column(rc, "flight_count")),
                               15 * 15>>,
                 color |-> [k \in 1..Len(agg) |->
                               color_scale[((k - 1) % Len(color_scale)) + 1]]]]

\* Lines 109-124: the marker trace, one point per summary row. sizeref is
\* the quotient 2*max/15^2, held as <<numerator, denominator>>.
marker_trace(agg, rc, colors) ==
    [mode |-> "markers", locationmode |-> "USA-states",
     lon |-> Column(agg, "start_lon"), lat |-> Column(agg, "start_lat"),
     hoverinfo |-> "text", text |-> Column(agg, "hover_text"),
     marker |-> [size |-> Column(rc, "flight_count"), sizemode |-> "area",
                 sizeref |-> <<2 * MaxOf(Column(rc, "flight_count")),
                               15 * 15>>,
                 color |-> [k \in 1..Len(agg) |->
                               lookup(colors, agg[k].city1)]]]

\* Lines 129-141: the line trace of one filtered row.
line_trace(row, colors) ==
    [mode |-> "lines", locationmode |-> "USA-states",
     lon |-> <<row.start_lon, row.end_lon, "None">>,
     lat |-> <<row.start_lat, row.end_lat, "None">>,
     line |-> [width |-> 1, color |-> lookup(colors, row.city1)],
     opacity |-> <<1, 2>>]

\* Lines 143-164.
layout ==
    [title_text |-> "American Airline flight paths<br>(Hover for airport names)",
     showlegend |-> FALSE, scope |-> "north america",
     projection_type |-> "azimuthal equal area",
     lonaxis |-> <<-130, -60>>, lataxis |-> <<20, 55>>, height |-> 700]

\* Lines 107-165: the returned figure; a missed colour lookup raises
\* instead and nothing is returned.
build_figure(agg, rc, dy, colors) ==
    IF \E i \in 1..Len(dy) : dy[i].city1 \notin DOMAIN colors
    THEN [raised |-> KeyError, data |-> <<>>, layout |-> layout]
    ELSE [raised |-> "",
          data |-> <<marker_trace(agg, rc, colors)>>
                   \o [i \in 1..Len(dy) |-> line_trace(dy[i], colors)],
          layout |-> layout]

\* Lines 59-165: one invocation on the module-level table d; the table it
\* leaves behind, its locals and the figure it returns.
recompute(d, ys, cs) ==
    LET d1  == set_route(d)
        rc  == count_routes(d1)
        dy  == filter_rows(d1, ys, cs)
        agg == summarise(dy)
        col == assign_colors(agg)
    IN  [df |-> d1, route_counts |-> rc, df_year |-> dy,
         df_aggregated |-> agg, city_colors |-> col,
         fig |-> build_figure(agg, rc, dy, col)]

\* Lines 34-47: a multi dropdown returns None or a list of its options,
\* which are the distinct values of the column. Enumerated here: nothing,
\* every option, every option but one.
Choices(column) ==
    LET opts == Range(unique(column))
    IN  {None} \cup {Selected(S) :
            S \in {{}, opts} \cup {opts \ {o} : o \in opts}}

\* ----------------------------------------------------------- behaviour
NoCall == [raised |-> "", data |-> <<>>, layout |-> layout]

Init ==
    /\ pc = "startup"
    /\ csv \in CsvFiles
    /\ df = <<>>
    /\ loaded = <<>>
    /\ calls = 0
    /\ year_selected = None
    /\ source_city_selected = None
    /\ route_counts = <<>>
    /\ df_year = <<>>
    /\ df_aggregated = <<>>
    /\ city_colors = <<>>
    /\ fig = NoCall

\* Lines 10-22 on a file with records: the page is served.
Startup ==
    /\ pc = "startup"
    /\ Len(csv) > 0
    /\ df' = read_csv(csv)
    /\ loaded' = df'
    /\ pc' = "serving"
    /\ UNCHANGED <<csv, calls, year_selected, source_city_selected, route_counts,
                   df_year, df_aggregated, city_colors, fig>>

\* Line 13 on a file without records: str.split yields no columns to
\* assign and the script stops.
StartupFails ==
    /\ pc = "startup"
    /\ Len(csv) = 0
    /\ pc' = "failed"
    /\ UNCHANGED <<csv, df, loaded, calls, year_selected, source_city_selected,
                   route_counts, df_year, df_aggregated, city_colors, fig>>

\* Lines 54-165: one dropdown change, handled to completion.
update_graph(ys, cs) ==
    /\ pc = "serving"
    /\ LET r == recompute(df, ys, cs)
       IN  /\ df' = r.df
           /\ route_counts' = r.route_counts
           /\ df_year' = r.df_year
           /\ df_aggregated' = r.df_aggregated
           /\ city_colors' = r.city_colors
           /\ fig' = r.fig
    /\ year_selected' = ys
    /\ source_city_selected' = cs
    /\ calls' = IF calls < MaxCalls THEN calls + 1 ELSE calls
    /\ UNCHANGED <<pc, csv, loaded>>

Next ==
    \/ Startup
    \/ StartupFails
    \/ \E ys \in Choices(Column(df, "Year")),
          cs \in Choices(Column(df, "city1")) : update_graph(ys, cs)

Spec == Init /\ [][Next]_vars

\* Some dropdown event has been handled.
Called == calls > 0

\* ------------------------------------------------------------ properties
\* The filter predicate, stated on the table as loaded at startup and on
\* the selection of the last event.
AllYears  == {loaded[i].Year : i \in 1..Len(loaded)}
AllCities == {loaded[i].city1 : i \in 1..Len(loaded)}

ResolvedYears ==
    IF year_selected.is_none \/ year_selected.values = {}
    THEN AllYears ELSE year_selected.values

ResolvedCities ==
    IF source_city_selected.is_none \/ source_city_selected.values = {}
    THEN AllCities ELSE source_city_selected.values

\* Positions in the loaded table of the rows that satisfy the filter.
Matching ==
    {i \in 1..Len(loaded) : /\ loaded[i].Year \in ResolvedYears
                            /\ loaded[i].city1 \in ResolvedCities}

MatchingOf(city) == {i \in Matching : loaded[i].city1 = city}

RECURSIVE SumOver(_, _)
SumOver(I, f) ==
    IF I = {} THEN 0
    ELSE LET i == CHOOSE x \in I : TRUE IN f[i] + SumOver(I \ {i}, f)

LineTraces == {i \in 1..Len(fig.data) : fig.data[i].mode = "lines"}
MarkerTraces == {i \in 1..Len(fig.data) : fig.data[i].mode = "markers"}

C3_EmptyMeansAll ==
    Called =>
        /\ (year_selected.is_none \/ year_selected.values = {}) =>
              LET full == recompute(loaded, Selected(AllYears),
                                    source_city_selected)
              IN  /\ df_year = full.df_year
                  /\ df_aggregated = full.df_aggregated
                  /\ fig = full.fig
        /\ (source_city_selected.is_none
               \/ source_city_selected.values = {}) =>
              LET full == recompute(loaded, year_selected,
                                    Selected(AllCities))
              IN  /\ df_year = full.df_year
                  /\ df_aggregated = full.df_aggregated
                  /\ fig = full.fig

\* C3 witness: an empty year list beside a city selection that keeps some
\* rows and drops others.
C3_Witness ==
    /\ Called
    /\ ~year_selected.is_none
    /\ year_selected.values = {}
    /\ ~source_city_selected.is_none
    /\ source_city_selected.values # {}
    /\ Len(df_year) > 0
    /\ Len(df_year) < Len(df)
    /\ Cardinality(AllYears) = 2

C5_OneRowPerCity ==
    Called =>
        /\ \A i \in Matching :
              Cardinality({k \in 1..Len(df_aggregated) :
                  df_aggregated[k].city1 = loaded[i].city1}) = 1
        /\ \A k \in 1..Len(df_aggregated) :
              /\ MatchingOf(df_aggregated[k].city1) # {}
              /\ df_aggregated[k].flight_count
                    = Cardinality(MatchingOf(df_aggregated[k].city1))
        /\ Len(fig.data[1].lon)
              = Cardinality({loaded[i].city1 : i \in Matching})

\* C6: once the page is served the module-level table stays the table
\* that startup loaded.
C6_DatasetReadOnly == pc = "serving" => df = loaded

\* C7: the figure of the last event is the figure one call with that
\* selection returns on the freshly loaded table.
C7_NoStateAcrossEvents ==
    Called =>
        fig = recompute(loaded, year_selected, source_city_selected).fig

\* C7 witness: a later event of a sequence, handled on a table an earlier
\* call has already written to, with a non-trivial figure.
C7_Witness ==
    /\ calls = MaxCalls
    /\ Cardinality(LineTraces) >= 2
    /\ Len(df_year) < Len(df)

\* C8: the marker sizes are the route counts of the filtered rows, so a
\* row left out by the filter is counted in no route.
C8_RouteCountsOfFilteredRows ==
    Called =>
        /\ SumSeq(fig.data[1].marker.size) = Cardinality(Matching)
        /\ \A k \in 1..Len(route_counts) :
              \E i \in Matching : route(loaded[i]) = route_counts[k].route

\* First position of the city in the summary, counted in distinct cities.
SeenBefore(city) ==
    LET first == CHOOSE k \in 1..Len(df_aggregated) :
                    /\ df_aggregated[k].city1 = city
                    /\ \A j \in 1..(k - 1) : df_aggregated[j].city1 # city
    IN  Cardinality({df_aggregated[j].city1 : j \in 1..(first - 1)})

SummaryCities == {df_aggregated[k].city1 : k \in 1..Len(df_aggregated)}

\* C9: the i-th distinct city of the summary, in first-seen order, has
\* palette entry i modulo the palette length, so two cities less than a
\* palette length apart differ in colour.
C9_PaletteByFirstSeen ==
    Called =>
        /\ DOMAIN city_colors = SummaryCities
        /\ \A c \in SummaryCities :
              city_colors[c]
                  = color_scale[(SeenBefore(c) % Len(color_scale)) + 1]
        /\ \A c, d \in SummaryCities :
              (c # d /\ SeenBefore(c) - SeenBefore(d) < Len(color_scale)
                     /\ SeenBefore(d) - SeenBefore(c) < Len(color_scale))
                  => city_colors[c] # city_colors[d]

\* C9 witness: more cities than palette entries, the one after the last
\* entry being given the first entry again.
C9_Witness ==
    /\ Called
    /\ Cardinality(SummaryCities) > Len(color_scale)
    /\ \E c \in SummaryCities :
          /\ SeenBefore(c) = Len(color_scale)
          /\ city_colors[c] = color_scale[1]

\* C10: a summary row shows the airport and the destination of the first
\* filtered row, in dataset order, of its origin city.
C10_FirstRowOfCityWins ==
    Called =>
        \A k \in 1..Len(df_aggregated) :
            LET rows  == MatchingOf(df_aggregated[k].city1)
                first == CHOOSE i \in rows : \A j \in rows : i <= j
            IN  /\ rows # {}
                /\ df_aggregated[k].airport_1 = loaded[first].airport_1
                /\ df_aggregated[k].end_lat = loaded[first].end_lat
                /\ df_aggregated[k].end_lon = loaded[first].end_lon
====
